---- MODULE Spec2Model ----
(***************************************************************************)
(* Model of the evaluation core of twinkle_coder_eval:                     *)
(*   - check_correctness_windows / execute_in_isolation                    *)
(*     (src/eval/execution_windows.py): one job run in an inner            *)
(*     single-thread pool with a deadline, inside a scratch directory,     *)
(*     after apply_windows_safety_guard has patched the os module;         *)
(*   - multi_process_function (src/evaluate.py): a bounded thread pool     *)
(*     that runs the job function over a list and collects the results     *)
(*     in completion order.                                                *)
(* All jobs run as threads of ONE process, so the working directory and    *)
(* the patched os module are process-wide state shared by the jobs.        *)
(* File-system behaviour is that of POSIX (a directory that is the         *)
(* process's working directory can be removed; getcwd/chdir/open on a      *)
(* removed directory raise FileNotFoundError); the interpreter is CPython   *)
(* 3.9 or later, where os.environ.__setitem__ calls the module-level        *)
(* os.putenv.                                                              *)
(***************************************************************************)
EXTENDS Integers, Sequences, FiniteSets, TLC

\* ---------------------------------------------------------------- bounds
MaxJobs == 2
MaxWorkers == 2
MaxCpu == 2

\* ------------------------------------------------------- program inputs
\* How the untrusted program behaves when exec'd:
\*   ending  return : runs to completion            raise : raises an Exception
\*           exit   : raises SystemExit (sys.exit)  hang  : never terminates
\*   writes  it first creates a file in the current working directory
\*   late    it ends only after the deadline time_out has expired
\*   msg     str(e) of the exception it raises
\*   attempt what else it tries first: "input" reads sys.stdin; the others
\*           call the named operation on something outside its scratch
\*           directory ("exit" is the builtin exit(), "chdir" changes to the
\*           start directory and drops a file there)
Msgs == {"", "boom"}
Attempts == {"input", "exit", "unlink", "rename", "popen", "rmdir", "chdir",
             "posix_spawn"}

Programs ==
    { p \in [ending : {"return", "raise", "exit", "hang"},
             writes : BOOLEAN, late : BOOLEAN, msg : Msgs,
             attempt : Attempts \cup {"none"}] :
        /\ (p.ending # "raise" => p.msg = "")
        /\ (p.ending = "hang" => ~p.late)
        /\ (p.attempt # "none" =>
               p.ending = "return" /\ ~p.writes /\ ~p.late) }

\* time_out, the deadline handed to future.result (line 78):
\*   tight : so short that the harness's own steps can outlast it
\*           (time_out = 0.0 at the least): it can expire wherever the
\*           inner thread is
\*   ample : only the program's run time can outlast it
TimeOuts == {"tight", "ample"}

\* the calls check_correctness_windows can get: a program and a deadline
Calls == [solution : Programs, time_out : TimeOuts]

\* the programs drawn for batches of more than one job: a clean one, one
\* that writes a file, one that raises, one that exits, one that reads
\* standard input and one that changes directory
BatchPrograms ==
    { p \in Programs :
        /\ p.attempt \in {"none", "input", "chdir"}
        /\ p.ending \in {"return", "raise", "exit"}
        /\ ~p.late
        /\ (p.msg = "boom" <=> p.ending = "raise")
        /\ (p.writes => p.ending = "return") }

\* the calls drawn for batches of more than one job: the batch programs
\* with an ample deadline, and the clean program with a tight one (which
\* Init gives to the last job of a batch only)
BatchCalls ==
    { c \in Calls :
        /\ c.solution \in BatchPrograms
        /\ c.time_out = "tight" =>
              (c.solution.ending = "return" /\ ~c.solution.writes
                  /\ c.solution.attempt = "none") }

\* the job list handed to the orchestrator: (task_id, completion_id,
\* solution, time_out)
JobOf(j, c) == [task_id |-> (j - 1) \div 2, completion_id |-> (j - 1) % 2,
                solution |-> c.solution, time_out |-> c.time_out]

\* ----------------------------------------------------------- exceptions
Exc(c, m) == [cls |-> c, msg |-> m]
\* isinstance(e, Exception): SystemExit / KeyboardInterrupt derive from
\* BaseException only
IsException(e) == e.cls \notin {"SystemExit", "KeyboardInterrupt"}
\* repr() of a text that holds single quotes and no double quote
Repr(text) == "\"" \o text \o "\""
\* str(e): the message the exception carries; KeyError.__str__ gives the
\* repr of its one argument
Str(e) == IF e.cls = "KeyError" THEN Repr(e.msg) ELSE e.msg

NoneTypeError == Exc("TypeError", "'NoneType' object is not callable")
\* os.getcwd() in a removed directory: no file name in the message
NoSuchDir == Exc("FileNotFoundError", "[Errno 2] No such file or directory")
\* os.chdir(path), open(path), mkdtemp: the message ends with the file name
NoSuchDirAt(path) ==
    Exc("FileNotFoundError",
        "[Errno 2] No such file or directory: '" \o path \o "'")
NoSpaceAt(path) ==
    Exc("OSError", "[Errno 28] No space left on device: '" \o path \o "'")
\* input() on the process's own stdin at end of file
EndOfFile == Exc("EOFError", "EOF when reading a line")
\* WriteOnlyStringIO.readline: raise IOError (no message)
ReadError == Exc("OSError", "")
PoolSizeError == Exc("ValueError", "max_workers must be greater than 0")

\* f"failed: {str(e)}"
Failed(e) == "failed: " \o Str(e)

\* outcome of a call or of a future: nothing yet, a value, or an exception
None == [t |-> "none"]
Val(v) == [t |-> "val", v |-> v]
Raised(e) == [t |-> "exc", e |-> e]

\* ------------------------------------------------------------ the state
VARIABLES
    jobs,        \* parameters_per_node: sequence of job records
    num_workers, \* the num_workers argument / local of multi_process_function
    cpu,         \* os.cpu_count()
    mpc,         \* position of the main thread in multi_process_function
    mret,        \* what multi_process_function returned or raised
    queue,       \* work queue of the outer pool (jobs submitted, not started)
    results,     \* the results list
    collected,   \* futures already yielded by as_completed
    cpc,         \* per job: position of check_correctness_windows
    result,      \* per job: the local variable result
    ret,         \* per job: outcome of the outer future (the call's outcome)
    ipc,         \* per job: position of execute_in_isolation (inner thread)
    ival,        \* per job: value being returned / exception propagating
    iret,        \* per job: outcome of the inner future
    orig,        \* per job: original_cwd
    expired,     \* per job: future.result(timeout) has timed out
    wrote,       \* per job: the program has done its file write
    pend,        \* per job: how the program itself ended
    hfail,       \* per job: a harness step around the program raised
    cwd,         \* process working directory
    dirs,        \* scratch directories that exist
    files,       \* scratch directories that contain a file
    guard,       \* os.unlink, os.remove, ... have been set to None
    stdio,       \* what sys.stdout, sys.stderr and sys.stdin are bound to
    saved,       \* per job: the _old_targets of its three redirections
    acted,       \* per job: the program has made its attempt
    outside,     \* what exists outside the scratch directories
    calc,        \* the scoring run: its inputs and what it has computed
    tdir,        \* per job: the path mkdtemp returned
    folder,      \* the next benchmark's result folder, left by an earlier run
    bench,       \* a call of a benchmark's process_results
    gen,         \* a call of OpenaiGenerator's continuation loop
    reg          \* a Registry: its _module_dict and the calls made on it

vars == <<jobs, num_workers, cpu, mpc, mret, queue, results, collected,
          cpc, result, ret, ipc, ival, iret, orig, expired, wrote, pend,
          hfail, cwd, dirs, files, guard, stdio, saved, acted, outside,
          calc, tdir, folder, bench, gen, reg>>

mainVars == <<num_workers, mpc, mret, queue, results, collected>>
callVars == <<cpc, result, ret>>
innerVars == <<ipc, ival, iret, orig, wrote, pend, hfail>>
innerVarsButPc == <<ival, iret, orig, wrote, pend, hfail>>
fsVars == <<cwd, dirs, files, guard>>
inputVars == <<jobs, cpu, calc, tdir, folder, bench, gen, reg>>
extVars == <<stdio, saved, acted, outside>>

Jobs == 1 .. Len(jobs)
Home == 0                 \* the directory the process was started in
NoDir == -1               \* temp_dir before mkdtemp has returned
TempDir(j) == tdir[j]     \* temp_dir of job j
Orig == 0                 \* the process's own stdin / stdout / stderr
Stream(j) == j            \* the WriteOnlyStringIO redirect_io makes for job j
\* sys.stdout, sys.stderr and sys.stdin as the process was started with
OwnStreams == [stdout |-> Orig, stderr |-> Orig, stdin |-> Orig]
\* the path of a directory: the start directory, or a name mkdtemp made
PathOf(d) == IF d = Home THEN "/home" ELSE "/tmp/tmp" \o ToString(d)
OutsideInit == {"file", "dir"}  \* a file and an empty directory elsewhere
Idle == [fn |-> "none"]   \* no function application in progress
Prog(j) == jobs[j].solution
TimeOut(j) == jobs[j].time_out

Min(a, b) == IF a < b THEN a ELSE b

\* os.path.isdir-like: the path can be entered / used
Exists(d) == d = Home \/ d \in dirs

Init ==
    /\ \E n \in 0 .. MaxJobs :
         \E cs \in [1 .. n -> IF n > 1 THEN BatchCalls ELSE Calls] :
            /\ jobs = [j \in 1 .. n |-> JobOf(j, cs[j])]
            /\ \A j \in 1 .. n - 1 : cs[j].time_out = "ample"
    /\ num_workers \in 1 .. MaxWorkers
    /\ cpu \in 1 .. MaxCpu
    /\ mpc = "clamp"
    /\ mret = None
    /\ queue = << >>
    /\ results = << >>
    /\ collected = {}
    /\ cpc = [j \in Jobs |-> "new"]
    /\ result = [j \in Jobs |-> ""]
    /\ ret = [j \in Jobs |-> None]
    /\ ipc = [j \in Jobs |-> "idle"]
    /\ ival = [j \in Jobs |-> None]
    /\ iret = [j \in Jobs |-> None]
    /\ orig = [j \in Jobs |-> Home]
    /\ expired = [j \in Jobs |-> FALSE]
    /\ wrote = [j \in Jobs |-> FALSE]
    /\ pend = [j \in Jobs |-> "none"]
    /\ hfail = [j \in Jobs |-> FALSE]
    /\ cwd = Home
    /\ dirs = {}
    /\ files = {}
    /\ guard = FALSE
    /\ stdio = OwnStreams
    /\ saved = [j \in Jobs |-> OwnStreams]
    /\ acted = [j \in Jobs |-> FALSE]
    /\ outside = OutsideInit
    /\ calc = Idle
    /\ tdir = [j \in Jobs |-> NoDir]
    /\ folder = "full"
    /\ bench = Idle
    /\ gen = Idle
    /\ reg = Idle


\* ============================================ execute_in_isolation (inner)
\* what the outer `except Exception` of execute_in_isolation makes of an
\* outcome leaving the `with TemporaryDirectory()` block (lines 70-71)
OuterExcept(o) ==
    IF o.t = "exc" /\ IsException(o.e) THEN Val(Failed(o.e)) ELSE o

\* the names mkdtemp can give: it draws random names and os.mkdir fails
\* with FileExistsError on one that exists, so it returns a name that did
\* not exist
DirNames == 1 .. MaxJobs
AnyName(ds) == DirNames
FreeNames(ds) == DirNames \ ds

\* tempfile.TemporaryDirectory(): mkdtemp creates the scratch directory, or
\* fails with OSError on the name it tried: the file system is full, or the
\* directory for temporary files does not exist (caught at line 70: the
\* thread returns "failed: ...")
MakeTempDir(j) ==
    /\ ipc[j] = "mkdtemp"
    /\ \/ /\ \E d \in FreeNames(dirs) :
                /\ tdir' = [tdir EXCEPT ![j] = d]
                /\ dirs' = dirs \cup {d}
          /\ ipc' = [ipc EXCEPT ![j] = "getcwd"]
          /\ UNCHANGED <<iret, hfail>>
       \/ /\ \E d \in FreeNames(dirs) :
                \E e \in {NoSpaceAt(PathOf(d)), NoSuchDirAt(PathOf(d))} :
                   iret' = [iret EXCEPT ![j] = OuterExcept(Raised(e))]
          /\ ipc' = [ipc EXCEPT ![j] = "done"]
          /\ hfail' = [hfail EXCEPT ![j] = TRUE]
          /\ UNCHANGED <<dirs, tdir>>
    /\ UNCHANGED <<mainVars, callVars, jobs, cpu, calc, folder, bench, gen, reg,
                   extVars, ival, orig,
                   wrote, pend, expired, cwd, files, guard>>

\* original_cwd = os.getcwd(): raises when the working directory has been
\* removed; the exception leaves the with block (cleanup still runs)
GetCwd(j) ==
    /\ ipc[j] = "getcwd"
    /\ IF Exists(cwd)
       THEN /\ orig' = [orig EXCEPT ![j] = cwd]
            /\ ipc' = [ipc EXCEPT ![j] = "chdir"]
            /\ UNCHANGED <<ival, hfail>>
       ELSE /\ ival' = [ival EXCEPT ![j] = Raised(NoSuchDir)]
            /\ ipc' = [ipc EXCEPT ![j] = "cleanup"]
            /\ hfail' = [hfail EXCEPT ![j] = TRUE]
            /\ UNCHANGED orig
    /\ UNCHANGED <<mainVars, callVars, inputVars, extVars, iret, wrote, pend,
                   expired, fsVars>>

\* os.chdir(temp_dir)
ChDir(j) ==
    /\ ipc[j] = "chdir"
    /\ cwd' = TempDir(j)
    /\ ipc' = [ipc EXCEPT ![j] = "guard"]
    /\ UNCHANGED <<mainVars, callVars, inputVars, extVars, ival, iret, orig, wrote,
                   pend, hfail, expired, dirs, files, guard>>

\* the functions apply_windows_safety_guard sets to None (lines 154-198),
\* and those its comments say it keeps for the harness
GuardDisables == {"exit", "quit", "kill", "system", "putenv", "remove",
                  "unlink", "rename", "fork", "popen"}
GuardKeeps == {"rmdir", "chdir", "getcwd"}
Disabled(g) == IF g THEN GuardDisables ELSE {}

\* apply_windows_safety_guard(), lines 150-160: os.environ[...] = "1" calls
\* os.putenv, which raises TypeError once a previous installation has set
\* os.putenv = None; `except Exception` (line 64) makes it the return value
\* and the program is never run
EnvSetOk(g) == "putenv" \notin Disabled(g)

GuardSetEnv(j) ==
    /\ ipc[j] = "guard"
    /\ IF EnvSetOk(guard)
       THEN /\ ipc' = [ipc EXCEPT ![j] = "patch"]
            /\ UNCHANGED <<ival, hfail>>
       ELSE /\ ival' = [ival EXCEPT ![j] = Val(Failed(NoneTypeError))]
            /\ hfail' = [hfail EXCEPT ![j] = TRUE]
            /\ ipc' = [ipc EXCEPT ![j] = "restore"]
    /\ UNCHANGED <<mainVars, callVars, inputVars, extVars, iret, orig, wrote,
                   pend, expired, fsVars>>

\* apply_windows_safety_guard(), lines 163-205: patches the os, shutil and
\* subprocess modules of the process
ApplyGuard(j) ==
    /\ ipc[j] = "patch"
    /\ guard' = TRUE
    /\ ipc' = [ipc EXCEPT ![j] = "redirect"]
    /\ UNCHANGED <<mainVars, callVars, inputVars, extVars, ival, iret, orig,
                   wrote, pend, hfail, expired, cwd, dirs, files>>

\* with redirect_io() (lines 98-101): redirect_stdout, redirect_stderr and
\* redirect_stdin are entered in that order and left in the reverse order.
\* Each __enter__ is two steps, `self._old_targets.append(getattr(sys, s))`
\* and `setattr(sys, s, self._new_target)`; each __exit__ is
\* `setattr(sys, s, self._old_targets.pop())`.
StreamNames == {"stdout", "stderr", "stdin"}
SavePc  == [stdout |-> "redirect", stderr |-> "save_stderr",
            stdin |-> "save_stdin"]
SetPc   == [stdout |-> "set_stdout", stderr |-> "set_stderr",
            stdin |-> "set_stdin"]
AfterSet == [stdout |-> "save_stderr", stderr |-> "save_stdin",
             stdin |-> "exec"]
ExitPc  == [stdin |-> "exit_stdin", stderr |-> "exit_stderr",
            stdout |-> "exit_stdout"]
AfterExit == [stdin |-> "exit_stderr", stderr |-> "exit_stdout",
              stdout |-> "restore"]

SaveStream(j) ==
    /\ \E s \in StreamNames :
          /\ ipc[j] = SavePc[s]
          /\ saved' = [saved EXCEPT ![j][s] = stdio[s]]
          /\ ipc' = [ipc EXCEPT ![j] = SetPc[s]]
    /\ UNCHANGED <<mainVars, callVars, inputVars, innerVarsButPc, stdio, acted,
                   outside, expired, fsVars>>

SetStream(j) ==
    /\ \E s \in StreamNames :
          /\ ipc[j] = SetPc[s]
          /\ stdio' = [stdio EXCEPT ![s] = Stream(j)]
          /\ ipc' = [ipc EXCEPT ![j] = AfterSet[s]]
    /\ UNCHANGED <<mainVars, callVars, inputVars, innerVarsButPc, saved, acted,
                   outside, expired, fsVars>>

\* the with redirect_io() block is left, by the program's end or by its
\* exception: stdin, stderr and stdout are bound to what was saved
ExitRedirect(j) ==
    /\ \E s \in StreamNames :
          /\ ipc[j] = ExitPc[s]
          /\ stdio' = [stdio EXCEPT ![s] = saved[j][s]]
          /\ ipc' = [ipc EXCEPT ![j] = AfterExit[s]]
    /\ UNCHANGED <<mainVars, callVars, inputVars, innerVarsButPc, saved, acted,
                   outside, expired, fsVars>>

\* sys.stdin.readline() / read() on what sys.stdin is bound to: a
\* WriteOnlyStringIO raises IOError, the process's own stdin does not
ReadRaises(io) == io # Orig

\* the program calls input(): it raises at once on a redirected stream; on
\* the process's own stdin it gets a line, or blocks for lack of one, or
\* raises EOFError at end of file
ProgramRead(j) ==
    /\ ipc[j] = "exec"
    /\ Prog(j).attempt = "input" /\ ~acted[j]
    /\ acted' = [acted EXCEPT ![j] = TRUE]
    /\ IF ReadRaises(stdio.stdin)
       THEN /\ ival' = [ival EXCEPT ![j] = Val(Failed(ReadError))]
            /\ pend' = [pend EXCEPT ![j] = "raised"]
            /\ ipc' = [ipc EXCEPT ![j] = "exit_stdin"]
       ELSE \/ UNCHANGED <<ipc, ival, pend>>
            \/ /\ ipc' = [ipc EXCEPT ![j] = "blocked"]
               /\ UNCHANGED <<ival, pend>>
            \/ /\ ival' = [ival EXCEPT ![j] = Val(Failed(EndOfFile))]
               /\ pend' = [pend EXCEPT ![j] = "raised"]
               /\ ipc' = [ipc EXCEPT ![j] = "exit_stdin"]
    /\ UNCHANGED <<mainVars, callVars, inputVars, iret, orig, wrote, hfail,
                   stdio, saved, outside, expired, fsVars>>

\* what an operation the guard has not disabled does to the world outside
\* the scratch directory
Effect(op, out) ==
    CASE op \in {"unlink", "rename"} -> out \ {"file"}
      [] op = "rmdir" -> out \ {"dir"}
      [] op = "chdir" -> out \cup {"dropped"}
      [] op \in {"popen", "posix_spawn"} -> out \cup {"child"}
      [] OTHER -> out

\* the program calls an operation: TypeError when the guard has set it to
\* None, SystemExit for an exit() left in place, its effect otherwise
ProgramAttempt(j) ==
    /\ ipc[j] = "exec"
    /\ Prog(j).attempt \in Attempts \ {"input"} /\ ~acted[j]
    /\ acted' = [acted EXCEPT ![j] = TRUE]
    /\ IF Prog(j).attempt \in Disabled(guard)
       THEN /\ ival' = [ival EXCEPT ![j] = Val(Failed(NoneTypeError))]
            /\ pend' = [pend EXCEPT ![j] = "raised"]
            /\ ipc' = [ipc EXCEPT ![j] = "exit_stdin"]
            /\ UNCHANGED <<outside, cwd>>
       ELSE IF Prog(j).attempt = "exit"
       THEN /\ ival' = [ival EXCEPT ![j] = Raised(Exc("SystemExit", "0"))]
            /\ pend' = [pend EXCEPT ![j] = "exited"]
            /\ ipc' = [ipc EXCEPT ![j] = "exit_stdin"]
            /\ UNCHANGED <<outside, cwd>>
       ELSE /\ outside' = Effect(Prog(j).attempt, outside)
            /\ cwd' = IF Prog(j).attempt = "chdir" THEN Home ELSE cwd
            /\ UNCHANGED <<ival, pend, ipc>>
    /\ UNCHANGED <<mainVars, callVars, inputVars, iret, orig, wrote, hfail,
                   stdio, saved, expired, dirs, files, guard>>

\* exec(check_program): the program creates a file, by a relative path, in
\* whatever the process's working directory is at that moment; on a removed
\* directory open() raises, which `except Exception` (line 64) turns into
\* the return value
ProgramWrite(j) ==
    /\ ipc[j] = "exec"
    /\ Prog(j).writes /\ ~wrote[j]
    /\ wrote' = [wrote EXCEPT ![j] = TRUE]
    /\ IF Exists(cwd)
       THEN /\ files' = files \cup {cwd}
            /\ UNCHANGED <<ipc, ival, pend>>
       ELSE /\ ival' = [ival EXCEPT ![j] = Val(Failed(NoSuchDirAt("a.txt")))]
            /\ pend' = [pend EXCEPT ![j] = "raised"]
            /\ ipc' = [ipc EXCEPT ![j] = "exit_stdin"]
            /\ UNCHANGED files
    /\ UNCHANGED <<mainVars, callVars, inputVars, extVars, iret,
                   orig, hfail, expired, cwd, dirs, guard>>

\* the value returned, or the exception left propagating, when the program
\* ends (lines 60-65)
ProgramOutcome(p) ==
    CASE p.ending = "return" -> Val("passed")
      [] p.ending = "raise"  -> Val(Failed(Exc("ValueError", p.msg)))
      [] OTHER               -> Raised(Exc("SystemExit", "0"))

EndKind(p) ==
    CASE p.ending = "return" -> "clean"
      [] p.ending = "raise"  -> "raised"
      [] OTHER               -> "exited"

\* the program ends; a late program ends only after the deadline, a hanging
\* one never. The with redirect_io() block is left next.
ProgramEnd(j) ==
    /\ ipc[j] = "exec"
    /\ Prog(j).writes => wrote[j]
    /\ Prog(j).attempt # "none" => acted[j]
    /\ Prog(j).ending # "hang"
    /\ Prog(j).late => expired[j]
    /\ ival' = [ival EXCEPT ![j] = ProgramOutcome(Prog(j))]
    /\ pend' = [pend EXCEPT ![j] = EndKind(Prog(j))]
    /\ ipc' = [ipc EXCEPT ![j] = "exit_stdin"]
    /\ UNCHANGED <<mainVars, callVars, inputVars, extVars, iret,
                   orig, wrote, hfail, expired, fsVars>>

\* finally: os.chdir(original_cwd); an exception raised here replaces the
\* pending return value or exception
RestoreCwd(j) ==
    /\ ipc[j] = "restore"
    /\ IF Exists(orig[j])
       THEN /\ cwd' = orig[j]
            /\ UNCHANGED <<ival, hfail>>
       ELSE /\ ival' = [ival EXCEPT ![j] = Raised(NoSuchDirAt(PathOf(orig[j])))]
            /\ hfail' = [hfail EXCEPT ![j] = TRUE]
            /\ UNCHANGED cwd
    /\ ipc' = [ipc EXCEPT ![j] = "cleanup"]
    /\ UNCHANGED <<mainVars, callVars, inputVars, extVars, iret, orig, wrote, pend,
                   expired, dirs, files, guard>>

\* shutil.rmtree(d) run with nothing else running: os.unlink for every file,
\* then os.rmdir. TRUE iff it succeeds.
RmtreeOk(d, fs, g) == ~(d \in fs /\ "unlink" \in Disabled(g))

\* os.rmdir on a directory that holds a file
NotEmptyAt(path) ==
    Exc("OSError", "[Errno 39] Directory not empty: '" \o path \o "'")

\* TemporaryDirectory.__exit__ -> shutil.rmtree(temp_dir), first step: the
\* directory is listed (os.scandir); a file found is unlinked next, an
\* empty directory goes to os.rmdir
RmtreeScan(j) ==
    /\ ipc[j] = "cleanup"
    /\ ipc' = [ipc EXCEPT ![j] = IF TempDir(j) \in files THEN "unlink"
                                 ELSE "rmdir"]
    /\ UNCHANGED <<mainVars, callVars, inputVars, extVars, innerVarsButPc,
                   expired, fsVars>>

\* os.unlink(entry.name, dir_fd=topfd): TypeError when the guard has set
\* os.unlink to None; it is no OSError, so it leaves rmtree, the directory
\* stays and the exception replaces the pending outcome (then lines 70-71
\* and the thread ends)
RmtreeUnlink(j) ==
    /\ ipc[j] = "unlink"
    /\ IF "unlink" \in Disabled(guard)
       THEN /\ iret' = [iret EXCEPT ![j] = OuterExcept(Raised(NoneTypeError))]
            /\ hfail' = [hfail EXCEPT ![j] = TRUE]
            /\ ipc' = [ipc EXCEPT ![j] = "done"]
            /\ UNCHANGED files
       ELSE /\ files' = files \ {TempDir(j)}
            /\ ipc' = [ipc EXCEPT ![j] = "rmdir"]
            /\ UNCHANGED <<iret, hfail>>
    /\ UNCHANGED <<mainVars, callVars, inputVars, extVars, ival, orig, wrote,
                   pend, expired, cwd, dirs, guard>>

\* os.rmdir(temp_dir): OSError when a file has been written into the
\* directory since it was listed (the cleanup's onerror re-raises it, the
\* directory stays with the file); otherwise the directory is removed and
\* the pending outcome leaves the with block. Then lines 70-71 and the
\* thread ends.
RmtreeRmdir(j) ==
    /\ ipc[j] = "rmdir"
    /\ IF TempDir(j) \in files
       THEN /\ iret' = [iret EXCEPT ![j] =
                          OuterExcept(Raised(NotEmptyAt(PathOf(TempDir(j)))))]
            /\ hfail' = [hfail EXCEPT ![j] = TRUE]
            /\ UNCHANGED dirs
       ELSE /\ dirs' = dirs \ {TempDir(j)}
            /\ iret' = [iret EXCEPT ![j] = OuterExcept(ival[j])]
            /\ UNCHANGED hfail
    /\ ipc' = [ipc EXCEPT ![j] = "done"]
    /\ UNCHANGED <<mainVars, callVars, inputVars, extVars, ival, orig, wrote,
                   pend, expired, cwd, files, guard>>


\* ======================================== check_correctness_windows (call)
\* dict(task_id=..., completion_id=..., passed=result == "passed", ...)
Verdict(job, res) ==
    [task_id |-> job.task_id, completion_id |-> job.completion_id,
     passed |-> (res = "passed"), result |-> res, solution |-> job.solution]

\* threads of the outer pool that are running the job function
Busy == {j \in Jobs : cpc[j] \in {"wait", "join"}}

\* A worker thread of the outer pool takes the next job off the queue and
\* calls the job function: the inner pool is created and
\* execute_in_isolation submitted to it (lines 75-76)
StartJob(j) ==
    /\ queue # << >> /\ Head(queue) = j
    /\ Cardinality(Busy) < num_workers
    /\ queue' = Tail(queue)
    /\ cpc' = [cpc EXCEPT ![j] = "wait"]
    /\ ipc' = [ipc EXCEPT ![j] = "mkdtemp"]
    /\ UNCHANGED <<num_workers, mpc, mret, results, collected, result, ret,
                   inputVars, extVars, ival, iret, orig, wrote, pend, hfail, expired,
                   fsVars>>

\* what future.result(timeout=time_out) gives once the inner thread has
\* ended: its value, "failed: ..." for an Exception (lines 81-82), or the
\* exception itself when it is no Exception (nothing catches it)
CallOutcome(job, o) ==
    CASE o.t = "val" -> Val(Verdict(job, o.v))
      [] o.t = "exc" /\ IsException(o.e) -> Val(Verdict(job, Failed(o.e)))
      [] OTHER -> o

\* future.result returns or raises before the deadline; the with block is
\* left (the inner thread has ended, shutdown does not wait) and the call
\* returns its dict or lets the exception escape
ResultReady(j) ==
    /\ cpc[j] = "wait" /\ ipc[j] = "done"
    /\ result' = [result EXCEPT ![j] =
                    IF CallOutcome(jobs[j], iret[j]).t = "val"
                    THEN CallOutcome(jobs[j], iret[j]).v.result ELSE @]
    /\ ret' = [ret EXCEPT ![j] = CallOutcome(jobs[j], iret[j])]
    /\ cpc' = [cpc EXCEPT ![j] = "done"]
    /\ UNCHANGED <<mainVars, inputVars, extVars, innerVars, expired, fsVars>>

\* the program is running and does not end before an ample deadline: it is
\* late, hangs or is blocked in a read
Outlasts(p, ip) ==
    ip \in {"exec", "blocked"} /\ (p.late \/ p.ending = "hang" \/ ip = "blocked")

\* the deadline expires while the inner thread has not ended: wherever
\* that thread is (in the program or in a step of the harness before or
\* after it) for a tight deadline, in a program that outlasts it for an
\* ample one. concurrent.futures.TimeoutError, result = "timed out"
\* (lines 79-80) and the with block is left: executor.shutdown(wait=True)
Expire(j) ==
    /\ cpc[j] = "wait" /\ ipc[j] # "done"
    /\ TimeOut(j) = "tight" \/ Outlasts(Prog(j), ipc[j])
    /\ ~expired[j]
    /\ expired' = [expired EXCEPT ![j] = TRUE]
    /\ result' = [result EXCEPT ![j] = "timed out"]
    /\ cpc' = [cpc EXCEPT ![j] = "join"]
    /\ UNCHANGED <<mainVars, inputVars, extVars, innerVars, ret, fsVars>>

\* ThreadPoolExecutor.__exit__ -> shutdown(wait=True) joins the inner
\* thread: the call goes on to its return statement only when
\* execute_in_isolation has ended
ShutdownWaits(ip) == ip # "done"

JoinInner(j) ==
    /\ cpc[j] = "join"
    /\ ~ShutdownWaits(ipc[j])
    /\ ret' = [ret EXCEPT ![j] = Val(Verdict(jobs[j], result[j]))]
    /\ cpc' = [cpc EXCEPT ![j] = "done"]
    /\ UNCHANGED <<mainVars, inputVars, extVars, innerVars, result, expired, fsVars>>

\* ============================================ multi_process_function (main)
\* lines 32-33
Clamp(nw, ncpu, n) == IF nw > n \/ nw > ncpu THEN Min(ncpu, n) ELSE nw

ClampWorkers ==
    /\ mpc = "clamp"
    /\ num_workers' = Clamp(num_workers, cpu, Len(jobs))
    /\ mpc' = "pool"
    /\ UNCHANGED <<mret, queue, results, collected, callVars, inputVars, extVars,
                   innerVars, expired, fsVars>>

\* ThreadPoolExecutor(num_workers): ValueError for num_workers <= 0, which
\* leaves multi_process_function; otherwise every job is submitted
CreatePool ==
    /\ mpc = "pool"
    /\ IF num_workers <= 0
       THEN /\ mpc' = "raised"
            /\ mret' = Raised(PoolSizeError)
            /\ UNCHANGED queue
       ELSE /\ mpc' = "collect"
            /\ queue' = [i \in 1 .. Len(jobs) |-> i]
            /\ UNCHANGED mret
    /\ UNCHANGED <<num_workers, results, collected, callVars, inputVars, extVars,
                   innerVars, expired, fsVars>>

\* for future in as_completed(futures): result = future.result();
\* results.append(result). future.result() re-raises what the job function
\* raised: the loop is left and the exception propagates
Collect(j) ==
    /\ mpc = "collect"
    /\ j \notin collected /\ ret[j].t # "none"
    /\ collected' = collected \cup {j}
    /\ IF ret[j].t = "val"
       THEN /\ results' = Append(results, ret[j].v)
            /\ UNCHANGED <<mpc, mret>>
       ELSE /\ mpc' = "abort"
            /\ mret' = ret[j]
            /\ UNCHANGED results
    /\ UNCHANGED <<num_workers, queue, callVars, inputVars, extVars, innerVars,
                   expired, fsVars>>

\* the outer with block is left through shutdown(wait=True): it returns
\* when every submitted job function has ended
PoolIdle == queue = << >> /\ \A j \in Jobs : cpc[j] = "done"

Return ==
    /\ mpc = "collect"
    /\ collected = Jobs
    /\ PoolIdle
    /\ mpc' = "returned"
    /\ mret' = Val(results)
    /\ UNCHANGED <<num_workers, queue, results, collected, callVars,
                   inputVars, extVars, innerVars, expired, fsVars>>

\* evaluate.main, next benchmark of the loop (line 237):
\* remove_all_content_in_folder(benchmark_result_folder) on a folder that
\* holds files; shutil.rmtree raises TypeError (not an OSError, so not
\* caught at line 85) when os.unlink is None
RemoveResultFolder ==
    /\ mpc = "returned"
    /\ folder = "full"
    /\ folder' = IF RmtreeOk("results", {"results"}, guard)
                 THEN "removed" ELSE "stuck"
    /\ UNCHANGED <<mainVars, callVars, jobs, cpu, calc, tdir, bench, gen, reg,
                   extVars, innerVars, expired, fsVars>>

Abort ==
    /\ mpc = "abort"
    /\ PoolIdle
    /\ mpc' = "raised"
    /\ UNCHANGED <<num_workers, mret, queue, results, collected, callVars,
                   inputVars, extVars, innerVars, expired, fsVars>>

Next ==
    \/ ClampWorkers
    \/ CreatePool
    \/ Return
    \/ Abort
    \/ RemoveResultFolder
    \/ \E j \in Jobs : StartJob(j)
    \/ \E j \in Jobs : MakeTempDir(j)
    \/ \E j \in Jobs : GetCwd(j)
    \/ \E j \in Jobs : ChDir(j)
    \/ \E j \in Jobs : GuardSetEnv(j)
    \/ \E j \in Jobs : ApplyGuard(j)
    \/ \E j \in Jobs : SaveStream(j)
    \/ \E j \in Jobs : SetStream(j)
    \/ \E j \in Jobs : ExitRedirect(j)
    \/ \E j \in Jobs : ProgramRead(j)
    \/ \E j \in Jobs : ProgramAttempt(j)
    \/ \E j \in Jobs : ProgramWrite(j)
    \/ \E j \in Jobs : ProgramEnd(j)
    \/ \E j \in Jobs : RestoreCwd(j)
    \/ \E j \in Jobs : RmtreeScan(j)
    \/ \E j \in Jobs : RmtreeUnlink(j)
    \/ \E j \in Jobs : RmtreeRmdir(j)
    \/ \E j \in Jobs : ResultReady(j)
    \/ \E j \in Jobs : Expire(j)
    \/ \E j \in Jobs : JoinInner(j)
    \/ \E j \in Jobs : Collect(j)

Spec == Init /\ [][Next]_vars

TypeOK ==
    /\ mpc \in {"clamp", "pool", "collect", "abort", "returned", "raised"}
    /\ \A j \in Jobs :
        /\ cpc[j] \in {"new", "wait", "join", "done"}
        /\ ipc[j] \in {"idle", "mkdtemp", "getcwd", "chdir", "guard", "patch",
                       "redirect", "set_stdout", "save_stderr", "set_stderr",
                       "save_stdin", "set_stdin", "exec", "blocked",
                       "exit_stdin", "exit_stderr", "exit_stdout", "restore",
                       "cleanup", "unlink", "rmdir", "done"}
        /\ saved[j] \in [StreamNames -> {Orig} \cup {Stream(i) : i \in Jobs}]
        /\ pend[j] \in {"none", "clean", "raised", "exited"}
    /\ Len(results) <= Len(jobs)
    /\ stdio \in [StreamNames -> {Orig} \cup {Stream(i) : i \in Jobs}]
    /\ acted \in [Jobs -> BOOLEAN]
    /\ tdir \in [Jobs -> DirNames \cup {NoDir}]
    /\ folder \in {"full", "removed", "stuck"}
    /\ bench = Idle /\ gen = Idle /\ reg = Idle
    /\ outside \subseteq OutsideInit \cup {"dropped", "child"}


\* =========================================================== arithmetic
\* The scoring functions compute in IEEE-754 binary64 (Python float, numpy
\* float64).  Natural numbers too large for one machine integer are held as
\* sequences of limbs, least significant first, without leading zero limbs.
LimbBase == 32768
LimbBits == 15

Max(a, b) == IF a > b THEN a ELSE b

RECURSIVE Pow2(_)
Pow2(x) == IF x = 0 THEN 1 ELSE 2 * Pow2(x - 1)

RECURSIVE BNorm(_)
BNorm(a) ==
    IF a = << >> THEN a
    ELSE IF a[Len(a)] = 0 THEN BNorm(SubSeq(a, 1, Len(a) - 1)) ELSE a

RECURSIVE BInt(_)
BInt(x) == IF x = 0 THEN << >> ELSE <<x % LimbBase>> \o BInt(x \div LimbBase)

Limb(a, i) == IF i <= Len(a) THEN a[i] ELSE 0

RECURSIVE BAddFrom(_, _, _, _)
BAddFrom(a, b, i, carry) ==
    IF i > Max(Len(a), Len(b))
    THEN IF carry = 0 THEN << >> ELSE <<carry>>
    ELSE LET s == Limb(a, i) + Limb(b, i) + carry
         IN  <<s % LimbBase>> \o BAddFrom(a, b, i + 1, s \div LimbBase)

BAdd(a, b) == BAddFrom(a, b, 1, 0)

\* a - b for a >= b
RECURSIVE BSubFrom(_, _, _, _)
BSubFrom(a, b, i, borrow) ==
    IF i > Len(a) THEN << >>
    ELSE LET s == Limb(a, i) - Limb(b, i) - borrow
         IN  IF s < 0
             THEN <<s + LimbBase>> \o BSubFrom(a, b, i + 1, 1)
             ELSE <<s>> \o BSubFrom(a, b, i + 1, 0)

BSub(a, b) == BNorm(BSubFrom(a, b, 1, 0))

\* -1, 0, 1 as a < b, a = b, a > b
RECURSIVE BCmpFrom(_, _, _)
BCmpFrom(a, b, i) ==
    IF i = 0 THEN 0
    ELSE IF a[i] < b[i] THEN -1
    ELSE IF a[i] > b[i] THEN 1
    ELSE BCmpFrom(a, b, i - 1)

BCmp(a, b) ==
    IF Len(a) < Len(b) THEN -1
    ELSE IF Len(a) > Len(b) THEN 1
    ELSE BCmpFrom(a, b, Len(a))

\* a * d for 0 <= d < LimbBase
RECURSIVE BMulSmallFrom(_, _, _, _)
BMulSmallFrom(a, d, i, carry) ==
    IF i > Len(a)
    THEN IF carry = 0 THEN << >> ELSE <<carry>>
    ELSE LET s == a[i] * d + carry
         IN  <<s % LimbBase>> \o BMulSmallFrom(a, d, i + 1, s \div LimbBase)

BMulSmall(a, d) == IF d = 0 THEN << >> ELSE BMulSmallFrom(a, d, 1, 0)

Zeros(n) == [i \in 1 .. n |-> 0]

RECURSIVE BMulFrom(_, _, _)
BMulFrom(a, b, i) ==
    IF i > Len(b) THEN << >>
    ELSE BAdd(IF b[i] = 0 THEN << >> ELSE Zeros(i - 1) \o BMulSmall(a, b[i]),
              BMulFrom(a, b, i + 1))

BMul(a, b) == IF a = << >> THEN << >> ELSE BMulFrom(a, b, 1)

\* quotient and remainder of a by d, 0 < d < LimbBase: long division from
\* the most significant limb; the quotient limbs come out least
\* significant first
RECURSIVE BDivSmallFrom(_, _, _, _)
BDivSmallFrom(a, d, i, rem) ==
    IF i = 0 THEN [q |-> << >>, r |-> rem]
    ELSE LET cur == rem * LimbBase + a[i]
             rest == BDivSmallFrom(a, d, i - 1, cur % d)
         IN  [q |-> rest.q \o <<cur \div d>>, r |-> rest.r]

BDivSmall(a, d) ==
    LET res == BDivSmallFrom(a, d, Len(a), 0)
    IN  [q |-> BNorm(res.q), r |-> res.r]

\* a * 2^s and floor(a / 2^s)
BShl(a, s) ==
    IF a = << >> THEN << >>
    ELSE Zeros(s \div LimbBits) \o BMulSmall(a, Pow2(s % LimbBits))

BShr(a, s) ==
    IF s \div LimbBits >= Len(a) THEN << >>
    ELSE BDivSmall(SubSeq(a, s \div LimbBits + 1, Len(a)),
                   Pow2(s % LimbBits)).q

RECURSIVE BitsOf(_)
BitsOf(x) == IF x = 0 THEN 0 ELSE 1 + BitsOf(x \div 2)

BitLen(a) ==
    IF a = << >> THEN 0 ELSE (Len(a) - 1) * LimbBits + BitsOf(a[Len(a)])

BOdd(a) == a # << >> /\ a[1] % 2 = 1

\* A non-negative binary64 value is m * 2^e with 2^52 <= m < 2^53, or zero.
\* (The values computed here lie in [2^-1022, 1]: no subnormals, no
\* overflow, no negative numbers.)
MantBits == 53
FZero == [m |-> << >>, e |-> 0]

\* the binary64 nearest to (n + f) * 2^e, ties to even, where n is a
\* natural number, 0 <= f < 1 and sticky tells whether f > 0; with sticky
\* set n has more than MantBits + 1 bits
FRound(n, e, sticky) ==
    IF n = << >> THEN FZero
    ELSE IF BitLen(n) <= MantBits
    THEN [m |-> BShl(n, MantBits - BitLen(n)), e |-> e - (MantBits - BitLen(n))]
    ELSE LET drop == BitLen(n) - MantBits
             kept == BShr(n, drop)
             low  == BSub(n, BShl(kept, drop))
             half == BShl(<<1>>, drop - 1)
             c    == BCmp(low, half)
             up   == c > 0 \/ (c = 0 /\ (sticky \/ BOdd(kept)))
             r    == IF up THEN BAdd(kept, <<1>>) ELSE kept
         IN  IF BitLen(r) > MantBits
             THEN [m |-> BShr(r, 1), e |-> e + drop + 1]
             ELSE [m |-> r, e |-> e + drop]

\* float(x) for a small natural number x
FInt(x) == FRound(BInt(x), 0, FALSE)
FOne == FInt(1)

\* x / d for a float x and an integer 0 < d < LimbBase (numpy true_divide)
GuardBits == 75
FDivInt(x, d) ==
    LET res == BDivSmall(BShl(x.m, GuardBits), d)
    IN  FRound(res.q, x.e - GuardBits, res.r # 0)

\* x + y, x - y (for x >= y), x * y, each rounded once
FAdd(x, y) ==
    IF x = FZero THEN y ELSE IF y = FZero THEN x
    ELSE LET e == IF x.e < y.e THEN x.e ELSE y.e
         IN  FRound(BAdd(BShl(x.m, x.e - e), BShl(y.m, y.e - e)), e, FALSE)

FSub(x, y) ==
    IF y = FZero THEN x
    ELSE LET e == IF x.e < y.e THEN x.e ELSE y.e
         IN  FRound(BSub(BShl(x.m, x.e - e), BShl(y.m, y.e - e)), e, FALSE)

FMul(x, y) ==
    IF x = FZero \/ y = FZero THEN FZero
    ELSE FRound(BMul(x.m, y.m), x.e + y.e, FALSE)

\* x < y, x <= y
FLess(x, y) ==
    IF y = FZero THEN FALSE
    ELSE IF x = FZero THEN TRUE
    ELSE LET e == IF x.e < y.e THEN x.e ELSE y.e
         IN  BCmp(BShl(x.m, x.e - e), BShl(y.m, y.e - e)) < 0

FLeq(x, y) == x = y \/ FLess(x, y)

\* ============================================================== scoring
\* group_and_count, estimate_pass_at_k and np.mean, applied in that order by
\* evaluate.main to the verdicts read back from the result file.
MaxN == 5          \* largest num_samples drawn
MaxK == 5          \* largest pass_at_k drawn
MaxTasks == 2      \* most distinct task ids / entries of num_correct
MaxVerdicts == 3   \* longest verdict list drawn
MaxConfig == 2     \* largest num_samples and pass_at_k drawn with one

\* what the result file can hold for one verdict
VerdictKinds == {"passed", "timed out", "failed: boom"}
StoredVerdicts ==
    { [task_id |-> t, passed |-> (r = "passed"), result |-> r] :
        t \in 0 .. MaxTasks - 1, r \in VerdictKinds }

\* runs with many samples per task, where the product falls below the
\* spacing of the binary64 numbers just under 1.0
ManySamples ==
    { [num_samples |-> 58, num_correct |-> <<26>>, k |-> 32],
      [num_samples |-> 60, num_correct |-> <<30>>, k |-> 30] }

\* a result file of a whole benchmark: every task has num_samples verdicts,
\* stored task by task, the first passes[t] of each task's verdicts passed
FullFile(n, passes) ==
    [i \in 1 .. n * Len(passes) |->
        LET t  == (i - 1) \div n
            ok == (i - 1) % n < passes[t + 1]
        IN  [task_id |-> t, passed |-> ok,
             result |-> IF ok THEN "passed" ELSE "failed: boom"]]

\* runs with three tasks, where the order of the float additions in np.mean
\* shows
ThreeTasks ==
    { [verdicts |-> FullFile(5, <<3, 4, 5>>), num_samples |-> 5, k |-> 1] }

\* grouped_counts (a dict, insertion-ordered) as a sequence of entries
HasKey(d, g) == \E i \in 1 .. Len(d) : d[i].key = g

\* `if group not in grouped_counts: grouped_counts[group] = 0`
LeaveKeys(d, g) == d
EnsureKey(d, g) == IF HasKey(d, g) THEN d ELSE Append(d, [key |-> g, n |-> 0])

\* `grouped_counts[group] += 1` on a defaultdict(int)
IncrementLast(d, g) ==
    [i \in 1 .. Len(d) |->
        IF i = Len(d) THEN [d[i] EXCEPT !.n = @ + 1] ELSE d[i]]
Increment(d, g) ==
    IF HasKey(d, g)
    THEN [i \in 1 .. Len(d) |->
            IF d[i].key = g THEN [d[i] EXCEPT !.n = @ + 1] ELSE d[i]]
    ELSE Append(d, [key |-> g, n |-> 1])

\* one pass of the loop body for item
CountItem(d, item) ==
    LET d1 == EnsureKey(d, item.task_id)
    IN  IF item.passed = TRUE THEN Increment(d1, item.task_id) ELSE d1

RECURSIVE CountLoop(_, _, _)
CountLoop(lst, i, d) ==
    IF i > Len(lst) THEN d ELSE CountLoop(lst, i + 1, CountItem(d, lst[i]))

\* list(grouped_counts.values())
group_and_count(lst) ==
    LET d == CountLoop(lst, 1, << >>)
    IN  [i \in 1 .. Len(d) |-> d[i].n]

\* np.arange(n - c + 1, n + 1): first element (the last is n)
ArangeFromDiff(n, c) == n - c
ArangeLo(n, c) == n - c + 1

\* one element of 1.0 - k / np.arange(...)
Ratio(k, i) == FDivInt(FInt(k), i)
Term(k, i) == FSub(FOne, FDivInt(FInt(k), i))

\* np.prod over the elements lo .. hi, multiplied in order from 1.0
RECURSIVE Prod(_, _, _, _)
Prod(k, i, hi, acc) ==
    IF i > hi THEN acc
    ELSE LET next == FMul(acc, Term(k, i))
         IN  IF next = FZero /\ i = hi THEN next ELSE Prod(k, i + 1, hi, next)

estimatorEager(n, c, k) ==
    IF n - c <= k THEN FOne
    ELSE FSub(FOne, Prod(k, ArangeLo(n, c), n, FOne))

estimator(n, c, k) ==
    IF n - c < k THEN FOne
    ELSE FSub(FOne, Prod(k, ArangeLo(n, c), n, FOne))

\* num_samples is an int: itertools.repeat(num_samples, len(num_correct))
estimate_pass_at_k(num_samples, num_correct, k) ==
    [t \in 1 .. Len(num_correct) |-> estimator(num_samples, num_correct[t], k)]

\* np.mean of a float64 array of fewer than 8 elements: the elements are
\* added in order, the sum is divided by the count; nan for an empty array
FNaN == [m |-> << >>, e |-> 1]

RECURSIVE SumFrom(_, _, _)
SumFrom(a, i, acc) ==
    IF i > Len(a) THEN acc ELSE SumFrom(a, i + 1, FAdd(acc, a[i]))

SumOnly(a) == IF Len(a) = 0 THEN FNaN ELSE SumFrom(a, 1, FZero)
Mean(a) == IF Len(a) = 0 THEN FNaN ELSE FDivInt(SumFrom(a, 1, FZero), Len(a))

RECURSIVE SeqsUpTo(_, _)
SeqsUpTo(S, n) ==
    IF n = 0 THEN {<< >>}
    ELSE LET shorter == SeqsUpTo(S, n - 1)
         IN  shorter \cup {Append(s, x) : s \in {q \in shorter : Len(q) = n - 1},
                                          x \in S}

\* the state of a scoring run: which step is next and what it has computed
\*   st = "read"      verdicts read back, group_and_count next
\*        "grouped"   num_correct known, estimate_pass_at_k next
\*        "estimated" per-task values known, np.mean next
\*        "scored"    pass_rate known
Run(st, vs, n, cs, k) ==
    [st |-> st, verdicts |-> vs, num_samples |-> n, num_correct |-> cs,
     k |-> k, est |-> << >>, score |-> FZero]

InitCalc ==
    /\ \/ \E vs \in SeqsUpTo(StoredVerdicts, MaxVerdicts) :
            \E n \in 1 .. MaxConfig : \E k \in 1 .. MaxConfig :
                calc = Run("read", vs, n, << >>, k)
       \/ \E n \in 1 .. MaxN :
            \E cs \in SeqsUpTo(0 .. n, MaxTasks) \ {<< >>} :
                \E k \in 1 .. MaxK :
                    calc = Run("grouped", << >>, n, cs, k)
       \/ \E r \in ManySamples :
            calc = Run("grouped", << >>, r.num_samples, r.num_correct, r.k)
       \/ \E r \in ThreeTasks :
            calc = Run("read", r.verdicts, r.num_samples, << >>, r.k)
    /\ jobs = << >>
    /\ num_workers = 1
    /\ cpu = 1
    /\ mpc = "returned"
    /\ mret = Val(<< >>)
    /\ queue = << >>
    /\ results = << >>
    /\ collected = {}
    /\ cpc = << >>
    /\ result = << >>
    /\ ret = << >>
    /\ ipc = << >>
    /\ ival = << >>
    /\ iret = << >>
    /\ orig = << >>
    /\ expired = << >>
    /\ wrote = << >>
    /\ pend = << >>
    /\ hfail = << >>
    /\ cwd = Home
    /\ dirs = {}
    /\ files = {}
    /\ guard = FALSE
    /\ stdio = OwnStreams
    /\ saved = << >>
    /\ acted = << >>
    /\ outside = OutsideInit
    /\ tdir = << >>
    /\ folder = "full"
    /\ bench = Idle
    /\ gen = Idle
    /\ reg = Idle

restVars == <<jobs, cpu, tdir, folder, bench, gen, reg, mainVars, callVars, innerVars, expired, fsVars,
              extVars>>

\* result_list = group_and_count(evaluations, 'task_id', 'passed')
GroupAndCount ==
    /\ calc.st = "read"
    /\ calc' = [calc EXCEPT !.st = "grouped",
                            !.num_correct = group_and_count(calc.verdicts)]
    /\ UNCHANGED restVars

\* estimate_pass_at_k(num_samples=num_samples, num_correct=result_list, k)
EstimatePassAtK ==
    /\ calc.st = "grouped"
    /\ calc' = [calc EXCEPT !.st = "estimated",
                            !.est = estimate_pass_at_k(calc.num_samples,
                                                       calc.num_correct,
                                                       calc.k)]
    /\ UNCHANGED restVars

\* pass_rate = float(np.mean(...))
ScoreMean ==
    /\ calc.st = "estimated"
    /\ calc' = [calc EXCEPT !.st = "scored", !.score = Mean(calc.est)]
    /\ UNCHANGED restVars

NextCalc == GroupAndCount \/ EstimatePassAtK \/ ScoreMean

SpecCalc == InitCalc /\ [][NextCalc]_vars


\* ========================================================== other parts
\* The harness while none of its executions or scoring runs is under way:
\* the state the three components below are exercised in.
Dormant ==
    /\ jobs = << >>
    /\ num_workers = 1
    /\ cpu = 1
    /\ mpc = "returned"
    /\ mret = Val(<< >>)
    /\ queue = << >>
    /\ results = << >>
    /\ collected = {}
    /\ cpc = << >>
    /\ result = << >>
    /\ ret = << >>
    /\ ipc = << >>
    /\ ival = << >>
    /\ iret = << >>
    /\ orig = << >>
    /\ expired = << >>
    /\ wrote = << >>
    /\ pend = << >>
    /\ hfail = << >>
    /\ cwd = Home
    /\ dirs = {}
    /\ files = {}
    /\ guard = FALSE
    /\ stdio = OwnStreams
    /\ saved = << >>
    /\ acted = << >>
    /\ outside = OutsideInit
    /\ tdir = << >>
    /\ folder = "full"
    /\ calc = Idle

harnessVars == <<jobs, cpu, calc, tdir, folder, mainVars, callVars, innerVars,
                 expired, fsVars, extVars>>

\* ------------------------------------------- Benchmark.process_results
MaxTaskId == 2          \* task ids are 0 .. MaxTaskId
MaxCompletionId == 1    \* completion ids are 0 .. MaxCompletionId

BenchClasses ==
    {"HumanEval", "HumanEvalPlus", "LeetCode", "MBPPPlus", "BigCodeBench"}

\* HumanEval, HumanEvalPlus, LeetCode and MBPPPlus test
\* `solution['task_id'] not in self.tasks` and return a verdict;
\* BigCodeBench has `assert solution['task_id'] in self.tasks`
ChecksTaskId(cls) == cls # "BigCodeBench"

TaskNotFound(sol) ==
    [task_id |-> sol.task_id, completion_id |-> sol.completion_id,
     passed |-> FALSE, result |-> "failed: task not found"]

OnUnknownTask(cls, sol) ==
    IF ChecksTaskId(cls) THEN Val(TaskNotFound(sol))
    ELSE Raised(Exc("AssertionError", ""))

InitBench ==
    /\ \E cls \in BenchClasses :
         \E tasks \in SUBSET (0 .. MaxTaskId) :
            \E t \in 0 .. MaxTaskId :
               \E c \in 0 .. MaxCompletionId :
                  bench = [pc |-> "lookup", cls |-> cls, tasks |-> tasks,
                           solution |-> [task_id |-> t, completion_id |-> c],
                           out |-> None]
    /\ gen = Idle
    /\ reg = Idle
    /\ Dormant

\* process_results up to `task_data = self.tasks[solution['task_id']]`
LookupTask ==
    /\ bench.pc = "lookup"
    /\ IF bench.solution.task_id \in bench.tasks
       THEN bench' = [bench EXCEPT !.pc = "check"]
       ELSE bench' = [bench EXCEPT
                         !.pc = "done",
                         !.out = OnUnknownTask(bench.cls, bench.solution)]
    /\ UNCHANGED <<gen, reg, harnessVars>>

\* the rest of process_results: the test program is built and
\* check_correctness returns its verdict for it
CheckSolution ==
    /\ bench.pc = "check"
    /\ \E r \in VerdictKinds :
          bench' = [bench EXCEPT
                       !.pc = "done",
                       !.out = Val([task_id |-> bench.solution.task_id,
                                    completion_id |->
                                        bench.solution.completion_id,
                                    passed |-> (r = "passed"),
                                    result |-> r])]
    /\ UNCHANGED <<gen, reg, harnessVars>>

NextBench == LookupTask \/ CheckSolution

SpecBench == InitBench /\ [][NextBench]_vars


\* --------------------------------- OpenaiGenerator: continuation loops
MaxRounds == 3          \* largest max_rounds drawn

Modes == {"stream", "normal"}   \* generate_with_stream_auto_continue,
                                \* generate_with_normal_mode
FinishReasons == {"stop", "length", "content_filter"}
\* message.content of a response: None or a piece of text
Contents == {None, Val("ab")}
Text(c) == IF c.t = "none" THEN "" ELSE c.v

\* `if finish_reason != "length": break`
ContinuesAlways(fr) == TRUE
Continues(fr) == fr = "length"

InitGen ==
    /\ \E mode \in Modes :
         \E rounds \in 0 .. MaxRounds :
            gen = [pc |-> "loop", mode |-> mode, max_rounds |-> rounds,
                   round_idx |-> 0, messages |-> 1, requests |-> 0,
                   log |-> << >>, full_text |-> "",
                   final_finish_reason |-> "stop", num_response |-> 0,
                   result |-> None]
    /\ bench = Idle
    /\ reg = Idle
    /\ Dormant

\* `for round_idx in range(max_rounds)` enters its body:
\* self.client.chat.completions.create(...) is called
SendRequest ==
    /\ gen.pc = "loop"
    /\ gen.round_idx < gen.max_rounds
    /\ gen' = [gen EXCEPT !.pc = "await", !.requests = @ + 1]
    /\ UNCHANGED <<bench, reg, harnessVars>>

\* the response arrives and is read; when it was cut off the text so far
\* and a "Please continue" message are added to the conversation
ReceiveResponse ==
    /\ gen.pc = "await"
    /\ \E fr \in FinishReasons :
         \E c \in Contents :
            gen' = [gen EXCEPT
                      !.full_text = @ \o Text(c),
                      !.final_finish_reason = fr,
                      !.num_response = @ + 1,
                      !.log = Append(@, fr),
                      !.messages = IF Continues(fr) THEN @ + 2 ELSE @,
                      !.round_idx = IF Continues(fr) THEN @ + 1 ELSE @,
                      !.pc = IF Continues(fr) THEN "loop" ELSE "finish"]
    /\ UNCHANGED <<bench, reg, harnessVars>>

\* `except Exception`: the request, or reading its response, raised
RequestRaises ==
    /\ gen.pc = "await"
    /\ gen' = [gen EXCEPT !.final_finish_reason = "error",
                          !.log = Append(@, "raise"),
                          !.pc = "finish"]
    /\ UNCHANGED <<bench, reg, harnessVars>>

\* range(max_rounds) is exhausted
LoopExhausted ==
    /\ gen.pc = "loop"
    /\ gen.round_idx >= gen.max_rounds
    /\ gen' = [gen EXCEPT !.pc = "finish"]
    /\ UNCHANGED <<bench, reg, harnessVars>>

\* the result dict is built and returned
BuildResult ==
    /\ gen.pc = "finish"
    /\ gen' = [gen EXCEPT
                  !.pc = "done",
                  !.result = Val([generation |-> gen.full_text,
                                  finish_reason |-> gen.final_finish_reason,
                                  num_response |-> gen.num_response])]
    /\ UNCHANGED <<bench, reg, harnessVars>>

NextGen ==
    \/ SendRequest
    \/ ReceiveResponse
    \/ RequestRaises
    \/ LoopExhausted
    \/ BuildResult

\* the loop runs in the calling thread and every request ends, with a
\* response or with an exception
SpecGen == InitGen /\ [][NextGen]_vars /\ WF_vars(NextGen)


\* ------------------------------------------------------------ Registry
MaxRegs == 3            \* most registrations made on one registry

\* classes given to the decorator: A1 and A2 are two classes whose __name__
\* is "A", B1 has __name__ "B"
ClassIds == {"A1", "A2", "B1"}
ClassName(cls) == IF cls = "B1" THEN "B" ELSE "A"
\* the name argument: "" stands for None (both are false in `name or ...`)
NameArgs == {"", "A", "x"}
ModuleNames == {"A", "B", "x"}

\* `module_name = name or cls.__name__`
ModuleName(name, cls) == IF name = "" THEN ClassName(cls) ELSE name

\* _module_dict as a function from the registered names
EmptyDict == [n \in {} |-> "A1"]
Put(d, m, cls) == [n \in DOMAIN d \cup {m} |-> IF n = m THEN cls ELSE d[n]]

\* `if module_name in self._module_dict and not force: raise KeyError`
NeverRefused(d, m, force) == FALSE
Refused(d, m, force) == m \in DOMAIN d /\ ~force

\* the names registries are made with (their _name)
RegistryNames == {"backend", "benchmark"}

\* KeyError(f"'{module_name}' is already registered in {self._name}")
AlreadyRegistered(r, m) ==
    Exc("KeyError", "'" \o m \o "' is already registered in " \o r)

\* what the module <name>.py can raise while it is imported, other than
\* ImportError: an exception of its code, or the SyntaxError of its text
BrokenModule(name) ==
    {Exc("RuntimeError", "broken module"),
     Exc("SyntaxError", "invalid syntax (" \o name \o ".py, line 1)")}

\* how the import of a module ends: it completes, raises ImportError, or
\* raises something else
ImportEndings(name) ==
    {Val("imported"), Val("ImportError")}
        \cup {Raised(e) : e \in BrokenModule(name)}

\* what get_module does with the ending of the import (lines 94-103), over
\* the registry's contents d after the import
AfterImport(d, name, ending) ==
    IF ending = Val("ImportError") THEN None
    ELSE IF ending # Val("imported") THEN ending
    ELSE IF name \in DOMAIN d THEN Val(d[name]) ELSE None

InitReg ==
    /\ \E r \in RegistryNames :
          reg = [name |-> r, dict |-> EmptyDict, prev |-> EmptyDict,
                 log |-> << >>, last |-> [op |-> "none"]]
    /\ bench = Idle
    /\ gen = Idle
    /\ Dormant

\* register_module(name, force)(cls)
RegisterModule ==
    /\ reg # Idle
    /\ Len(reg.log) < MaxRegs
    /\ \E name \in NameArgs : \E cls \in ClassIds : \E force \in BOOLEAN :
         LET m    == ModuleName(name, cls)
             stop == Refused(reg.dict, m, force)
         IN  reg' = [name |-> reg.name,
                     dict |-> IF stop THEN reg.dict ELSE Put(reg.dict, m, cls),
                     prev |-> reg.dict,
                     log  |-> Append(reg.log, [name |-> m, cls |-> cls,
                                               force |-> force]),
                     last |-> [op |-> "register", name |-> m, force |-> force,
                               out |-> IF stop
                                       THEN Raised(AlreadyRegistered(reg.name, m))
                                       ELSE Val(cls)]]
    /\ UNCHANGED <<bench, gen, harnessVars>>

\* get(name) for a registered name (lines 63-64)
GetRegistered ==
    /\ reg # Idle
    /\ \E name \in DOMAIN reg.dict :
         reg' = [reg EXCEPT !.prev = reg.dict,
                            !.last = [op |-> "get", name |-> name,
                                      force |-> FALSE,
                                      out |-> Val(reg.dict[name])]]
    /\ UNCHANGED <<bench, gen, harnessVars>>

\* get(name) for a name not registered: get_module imports the module the
\* name stands for. The module registers nothing, or its decorator makes a
\* registration (whose KeyError ends the import and is raised to the
\* caller); then the import completes and the name is looked up again
\* (lines 97-100), or raises ImportError, which is caught and None returned
\* (lines 101-103), or raises anything else, which the caller gets
GetByImport ==
    /\ reg # Idle
    /\ \E name \in ModuleNames \ DOMAIN reg.dict : \E ending \in ImportEndings(name) :
         \/ reg' = [reg EXCEPT !.prev = reg.dict,
                               !.last = [op |-> "get", name |-> name,
                                         force |-> FALSE,
                                         out |-> AfterImport(reg.dict, name,
                                                             ending)]]
         \/ /\ Len(reg.log) < MaxRegs
            /\ \E arg \in NameArgs : \E cls \in ClassIds : \E force \in BOOLEAN :
                 LET m    == ModuleName(arg, cls)
                     stop == Refused(reg.dict, m, force)
                     d    == IF stop THEN reg.dict ELSE Put(reg.dict, m, cls)
                 IN  reg' = [name |-> reg.name,
                             dict |-> d,
                             prev |-> reg.dict,
                             log  |-> Append(reg.log, [name |-> m, cls |-> cls,
                                                       force |-> force]),
                             last |-> [op |-> "get", name |-> name,
                                       force |-> FALSE,
                                       out |-> IF stop
                                               THEN Raised(AlreadyRegistered(
                                                               reg.name, m))
                                               ELSE AfterImport(d, name,
                                                                ending)]]
    /\ UNCHANGED <<bench, gen, harnessVars>>

NextReg == RegisterModule \/ GetRegistered \/ GetByImport

SpecReg == InitReg /\ [][NextReg]_vars


\* ================================================================ claims
\* the outcome a verdict's result string stands for: the code writes
\* "passed", "timed out" and "failed: <message>"
HasPrefix(str, pre) == Len(str) >= Len(pre) /\ SubSeq(str, 1, Len(pre)) = pre

Outcome(res) ==
    CASE res = "passed" -> "passed"
      [] res = "timed out" -> "timed_out"
      [] HasPrefix(res, "failed: ") -> "failed"
      [] OTHER -> "error"

\* the call of check_correctness_windows for job j has ended
CallEnded(j) == cpc[j] = "done"
\* ... by returning its dict
CallReturned(j) == ret[j].t = "val"
\* multi_process_function has ended
BatchEnded == mpc \in {"returned", "raised"}
\* no thread of the process can take a step any more
Quiescent == ~ENABLED Next

\* C1: for every job given to check_correctness_windows exactly one verdict
\* record is produced, and its task_id and completion_id are the job's,
\* whatever the outcome: a call that has ended has returned such a record.
C1_OneVerdictPerJob ==
    \A j \in Jobs :
        CallEnded(j) =>
            /\ CallReturned(j)
            /\ ret[j].v.task_id = jobs[j].task_id
            /\ ret[j].v.completion_id = jobs[j].completion_id

\* C2: for a program that never terminates, once the deadline has expired
\* check_correctness_windows abandons the execution unit and returns the
\* `timed out` verdict without waiting for the program: the call is never
\* blocked on the execution unit of a hanging program.
C2_TimedOutReturnsWithoutWaiting ==
    \A j \in Jobs :
        (Prog(j).ending = "hang" /\ expired[j] /\ ipc[j] = "exec") =>
            ~(cpc[j] = "join" /\ ShutdownWaits(ipc[j]))

\* C3: check_correctness_windows never lets an exception escape to its
\* caller, whatever the program raises (SystemExit included) and whatever
\* harness step fails.
C3_NoExceptionEscapes ==
    \A j \in Jobs : ret[j].t # "exc"

\* C4: the verdict has passed = True if and only if the program ran to
\* completion with no uncaught exception and before the deadline, also when
\* it wrote files into its scratch directory or ran beside other jobs.
C4_PassedIffCleanInTime ==
    \A j \in Jobs :
        CallReturned(j) =>
            (ret[j].v.passed <=> (pend[j] = "clean" /\ ~expired[j]))

\* C5: for N >= 0 jobs and any num_workers >= 1, multi_process_function
\* returns a list of exactly N results, one per submitted job, none
\* duplicated and none omitted.
C5_ExactlyOneResultPerJob ==
    BatchEnded =>
        /\ mret.t = "val"
        /\ Len(mret.v) = Len(jobs)
        /\ \A j \in Jobs :
             Cardinality({i \in 1 .. Len(mret.v) :
                            /\ mret.v[i].task_id = jobs[j].task_id
                            /\ mret.v[i].completion_id = jobs[j].completion_id})
               = 1

\* C6: when the job function raises inside a worker, multi_process_function
\* catches it and records an `error` verdict for that job; the batch is not
\* aborted and the verdicts of all other jobs are still returned.
C6_WorkerCrashBecomesErrorVerdict ==
    \A j \in Jobs :
        (BatchEnded /\ ret[j].t = "exc") =>
            /\ mret.t = "val"
            /\ \E i \in 1 .. Len(mret.v) :
                 /\ mret.v[i].task_id = jobs[j].task_id
                 /\ mret.v[i].completion_id = jobs[j].completion_id
                 /\ Outcome(mret.v[i].result) = "error"
            /\ \A k \in Jobs \ {j} :
                 ret[k].t = "val" =>
                     \E i \in 1 .. Len(mret.v) : mret.v[i] = ret[k].v

\* C7: a batch run through multi_process_function with
\* check_correctness_windows as the job function always terminates with one
\* verdict per submitted job, even when a job's program loops forever: when
\* nothing can run any more, the orchestrator has returned all verdicts.
C7_BatchTerminatesDespiteHang ==
    \A j \in Jobs :
        (Prog(j).ending = "hang" /\ Quiescent) =>
            /\ mpc = "returned"
            /\ mret.t = "val"
            /\ Len(mret.v) = Len(jobs)

\* C8: a harness-internal failure inside check_correctness_windows (scratch
\* directory not created, directory restore or cleanup failing) produces a
\* verdict whose outcome is `error`, distinguishable from `failed` (calls
\* whose deadline expired are left out).
C8_HarnessFailureIsError ==
    \A j \in Jobs :
        (CallReturned(j) /\ hfail[j] /\ ~expired[j]) =>
            Outcome(ret[j].v.result) = "error"

\* C9: a job whose program raises an uncaught exception (before the
\* deadline) yields a verdict with passed = False and a non-empty result of
\* the form `failed: <message>`, for every exception type and message.
C9_RaiseYieldsFailedVerdict ==
    \A j \in Jobs :
        (CallEnded(j) /\ pend[j] \in {"raised", "exited"} /\ ~expired[j]) =>
            /\ CallReturned(j)
            /\ ~ret[j].v.passed
            /\ Outcome(ret[j].v.result) = "failed"
            /\ ret[j].v.result # ""

\* C10: the scratch directory created for an execution no longer exists
\* once check_correctness_windows has returned, on every exit path, also
\* when the program created files in it.
C10_ScratchDirRemoved ==
    \A j \in Jobs :
        CallReturned(j) => TempDir(j) \notin dirs

\* C11: while a job's program is executing, the working directory it
\* observes is that job's own scratch directory and no other job's, for
\* every interleaving of the jobs the worker pool runs in the process (a
\* program that has changed directory itself is left out).
C11_CwdIsOwnScratchDir ==
    \A j \in Jobs :
        (ipc[j] = "exec" /\ ~(Prog(j).attempt = "chdir" /\ acted[j])) =>
            cwd = TempDir(j)

\* C12: once apply_windows_safety_guard is installed, a program's attempt to
\* exit the process, to delete or rename files or directories, to change
\* directory out of the scratch directory or to spawn a child process never
\* terminates the harness (no SystemExit ends multi_process_function) and
\* never takes effect outside the scratch directory.
C12_GuardContainsProgram ==
    /\ ~(mpc = "raised" /\ mret.t = "exc" /\ mret.e.cls = "SystemExit")
    /\ guard => outside = OutsideInit

\* C13: multi_process_function creates its worker pool with exactly
\* min(num_workers, os.cpu_count(), len(jobs)) workers, for every
\* num_workers >= 1, every CPU count and every job-list length: the clamp
\* step leaves that minimum in num_workers and the pool is then created
\* with it.
C13_PoolSizeIsMin ==
    [][/\ mpc = "clamp" =>
            num_workers' = Min(Min(num_workers, cpu), Len(jobs))
       /\ mpc = "pool" => mpc' = "collect"]_vars

\* -------------------------------------------------- exact reference values
\* C(n, k) as a natural number: C(n-k+j, j) for j = 1 .. k in turn
RECURSIVE BinomFrom(_, _, _, _)
BinomFrom(n, k, j, acc) ==
    IF j > k THEN acc
    ELSE LET next == BDivSmall(BMulSmall(acc, n - k + j), j).q
         IN  IF next = << >> THEN next ELSE BinomFrom(n, k, j + 1, next)

Binom(n, k) == IF k < 0 \/ k > n THEN << >> ELSE BinomFrom(n, k, 1, <<1>>)

\* the product of (i - k) and of i over i = lo .. hi, as natural numbers:
\* numerator and denominator of the product of (1 - k/i)
RECURSIVE ProdNum(_, _, _)
ProdNum(k, i, hi) ==
    IF i > hi THEN <<1>> ELSE BMulSmall(ProdNum(k, i + 1, hi), i - k)

RECURSIVE ProdDen(_, _)
ProdDen(i, hi) == IF i > hi THEN <<1>> ELSE BMulSmall(ProdDen(i + 1, hi), i)

\* binary64 rounding error allowed between a computed value and the real
\* number it stands for: 2^-TolBits
TolBits == 45

\* |f - p/q| <= 2^-TolBits for a float f <= 1 and natural numbers p, q > 0
Near(f, p, q) ==
    LET a == BShl(BMul(f.m, q), TolBits)
        b == BShl(p, TolBits - f.e)
        d == IF BCmp(a, b) >= 0 THEN BSub(a, b) ELSE BSub(b, a)
    IN  BCmp(d, BShl(q, 0 - f.e)) <= 0

Estimated == calc.st \in {"estimated", "scored"}

\* C14: for n >= 1, 0 <= c <= n, 1 <= k <= n and n - c >= k, the product of
\* (1 - k/i) over i = n-c+1 .. n that estimate_pass_at_k computes equals
\* C(n-c, k) / C(n, k), and the value it returns for the task is
\* 1 - C(n-c, k) / C(n, k) (to within binary64 rounding).
C14_ProductFormIsBinomialForm ==
    Estimated =>
        \A t \in 1 .. Len(calc.est) :
            LET n == calc.num_samples
                c == calc.num_correct[t]
                k == calc.k
            IN  (c <= n /\ k <= n /\ n - c >= k) =>
                    /\ BMul(ProdNum(k, ArangeLo(n, c), n), Binom(n, k))
                         = BMul(ProdDen(ArangeLo(n, c), n), Binom(n - c, k))
                    /\ Near(calc.est[t],
                            BSub(Binom(n, k), Binom(n - c, k)), Binom(n, k))

C14_Witness ==
    /\ calc.st = "estimated"
    /\ \E t \in 1 .. Len(calc.est) :
          /\ calc.num_correct[t] >= 2
          /\ calc.k >= 2
          /\ calc.num_samples - calc.num_correct[t] >= calc.k
          /\ calc.est[t] # FOne

\* sum over the tasks of C(n, k) - C(n - c, k): the exact per-task values
\* 1 - C(n-c, k) / C(n, k) added up, times C(n, k)
RECURSIVE PassedCombos(_, _, _, _)
PassedCombos(n, cs, k, t) ==
    IF t > Len(cs) THEN << >>
    ELSE BAdd(BSub(Binom(n, k), Binom(n - cs[t], k)),
              PassedCombos(n, cs, k, t + 1))

InDomain ==
    /\ calc.k <= calc.num_samples
    /\ \A t \in 1 .. Len(calc.num_correct) :
          calc.num_correct[t] <= calc.num_samples

\* C15: for k = 1 estimate_pass_at_k returns c/n for each task (to within
\* binary64 rounding; n = 2, c = [1, 0] gives exactly [0.5, 0.0]), and the
\* score computed from the per-task values is their arithmetic mean (0.25
\* in that case).
C15_PassAt1IsFractionAndScoreIsMean ==
    (calc.st = "scored" /\ InDomain /\ Len(calc.est) > 0) =>
        /\ calc.k = 1 =>
              \A t \in 1 .. Len(calc.est) :
                  Near(calc.est[t], BInt(calc.num_correct[t]),
                       BInt(calc.num_samples))
        /\ (calc.k = 1 /\ calc.num_samples = 2
                /\ calc.num_correct = <<1, 0>>) =>
              /\ calc.est = <<FDivInt(FOne, 2), FZero>>
              /\ calc.score = FDivInt(FOne, 4)
        /\ Near(calc.score,
                PassedCombos(calc.num_samples, calc.num_correct, calc.k, 1),
                BMulSmall(Binom(calc.num_samples, calc.k), Len(calc.est)))

C15_Witness ==
    /\ calc.st = "scored"
    /\ calc.k = 1 /\ calc.num_samples = 2 /\ calc.num_correct = <<1, 0>>
    /\ calc.score = FDivInt(FOne, 4)

\* C16: for fixed n and c with 0 <= c <= n the per-task value of
\* estimate_pass_at_k is non-decreasing in k: for all 1 <= k < n,
\* pass@k <= pass@(k+1).
C16_MonotoneInK ==
    Estimated =>
        \A t \in 1 .. Len(calc.est) :
            (calc.k < calc.num_samples
                /\ calc.num_correct[t] <= calc.num_samples) =>
                FLeq(calc.est[t],
                     estimator(calc.num_samples, calc.num_correct[t],
                               calc.k + 1))

C16_Witness ==
    /\ calc.st = "estimated"
    /\ \E t \in 1 .. Len(calc.est) :
          /\ calc.num_correct[t] > 0
          /\ calc.num_samples - calc.num_correct[t] > calc.k
          /\ FLess(calc.est[t],
                   estimator(calc.num_samples, calc.num_correct[t],
                             calc.k + 1))

\* C17 as stated: for every task with n - c < k estimate_pass_at_k returns
\* exactly 1.0, and for every task with n - c >= k and c < n it returns a
\* value strictly less than 1.0.
C17_OneIffTooFewFailures ==
    Estimated =>
        \A t \in 1 .. Len(calc.est) :
            LET n == calc.num_samples
                c == calc.num_correct[t]
                k == calc.k
            IN  /\ n - c < k => calc.est[t] = FOne
                /\ (n - c >= k /\ c < n) => FLess(calc.est[t], FOne)

\* C17 amended: for every task with n - c < k the value is exactly 1.0; for
\* every task with n - c >= k and c < n it is at most 1.0, strictly less
\* than 1.0 when C(n-c, k) / C(n, k) >= 2^-53, and exactly 1.0 (by binary64
\* rounding) when C(n-c, k) / C(n, k) <= 2^-55.
C17_OneIffTooFewFailuresOrRounded ==
    Estimated =>
        \A t \in 1 .. Len(calc.est) :
            LET n == calc.num_samples
                c == calc.num_correct[t]
                k == calc.k
            IN  /\ n - c < k => calc.est[t] = FOne
                /\ (n - c >= k /\ c < n) =>
                      /\ FLeq(calc.est[t], FOne)
                      /\ BCmp(BShl(Binom(n - c, k), MantBits), Binom(n, k)) >= 0
                            => FLess(calc.est[t], FOne)
                      /\ BCmp(BShl(Binom(n - c, k), MantBits + 2), Binom(n, k)) <= 0
                            => calc.est[t] = FOne

C17_Witness ==
    /\ calc.st = "estimated"
    /\ Len(calc.est) = 1
    /\ calc.num_samples - calc.num_correct[1] >= calc.k
    /\ calc.num_correct[1] < calc.num_samples
    /\ calc.est[1] = FOne

\* the task ids of a verdict list in order of first appearance, and the
\* number of a task's verdicts whose passed field is True
RECURSIVE FirstSeen(_, _, _)
FirstSeen(lst, i, acc) ==
    IF i > Len(lst) THEN acc
    ELSE FirstSeen(lst, i + 1,
                   IF \E j \in 1 .. Len(acc) : acc[j] = lst[i].task_id
                   THEN acc ELSE Append(acc, lst[i].task_id))

PassCount(lst, g) ==
    Cardinality({i \in 1 .. Len(lst) : lst[i].task_id = g /\ lst[i].passed})

\* C18: group_and_count over a list of verdicts returns one integer per
\* distinct task_id, in order of the task_id's first appearance, each the
\* number of that task's verdicts whose passed field is True; failed and
\* timed-out verdicts add 0 and a task with no passing verdict still has
\* its entry 0.
C18_GroupAndCount ==
    (calc.st \in {"grouped", "estimated", "scored"} /\ calc.verdicts # << >>) =>
        LET ids == FirstSeen(calc.verdicts, 1, << >>)
        IN  /\ Len(calc.num_correct) = Len(ids)
            /\ \A i \in 1 .. Len(ids) :
                  calc.num_correct[i] = PassCount(calc.verdicts, ids[i])

C18_Witness ==
    /\ calc.st = "grouped"
    /\ Len(calc.verdicts) = 3
    /\ calc.verdicts[1].task_id = 1 /\ calc.verdicts[1].result = "timed out"
    /\ calc.verdicts[2].task_id = 0 /\ calc.verdicts[2].passed
    /\ calc.verdicts[3].task_id = 1 /\ calc.verdicts[3].result = "failed: boom"
    /\ calc.num_correct = <<0, 1>>

\* C19: a program that reads from standard input while executed by
\* check_correctness_windows does not block: the read raises at once and
\* the job yields a `failed` verdict before the deadline (the deadline of
\* such a job is an ample one: the read is all that could outlast it).
C19_StdinReadFailsAtOnce ==
    \A j \in Jobs :
        (Prog(j).attempt = "input" /\ acted[j] /\ TimeOut(j) = "ample") =>
            /\ ipc[j] # "blocked"
            /\ pend[j] = "raised"
            /\ ~expired[j]
            /\ CallReturned(j) => Outcome(ret[j].v.result) = "failed"

\* C20: apply_windows_safety_guard is idempotent: installing it where it is
\* already installed does not raise and leaves exactly the operations
\* disabled, and the operations enabled, that one installation does.
C20_GuardInstallIdempotent ==
    [][\A j \in Jobs :
          (guard /\ ipc[j] = "guard" /\ ipc'[j] # "guard") =>
              /\ ipc'[j] = "patch"
              /\ Disabled(guard') = GuardDisables]_vars

\* job j holds a scratch directory: mkdtemp has returned and the
\* TemporaryDirectory block has not been left
HasScratch(j) ==
    ipc[j] \in {"getcwd", "chdir", "guard", "patch", "redirect", "set_stdout",
                "save_stderr", "set_stderr", "save_stdin", "set_stdin", "exec",
                "blocked", "exit_stdin", "exit_stderr", "exit_stdout",
                "restore", "cleanup", "unlink", "rmdir"}

\* C21: the scratch directories of any two jobs that are executing at the
\* same time are different paths.
C21_ScratchDirsDistinct ==
    \A i, j \in Jobs :
        (i # j /\ HasScratch(i) /\ HasScratch(j)) => TempDir(i) # TempDir(j)

C21_Witness ==
    \E i, j \in Jobs :
        /\ i # j
        /\ ipc[i] = "exec" /\ ipc[j] = "exec"
        /\ TempDir(i) \in dirs /\ TempDir(j) \in dirs

\* C22: the restrictions apply_windows_safety_guard installs for one
\* execution are not in force for harness code once the execution has
\* returned: after any sequence of executions the harness operations that
\* delete files (the result-folder cleanup before the next benchmark)
\* still work.
C22_GuardGoneAfterExecution ==
    /\ folder # "stuck"
    /\ mpc = "returned" => Disabled(guard) = {}

\* C23: the verdict of a job depends only on its own program text and
\* timeout, whatever other jobs the worker pool runs beside it and however
\* they interleave; in particular two jobs of one batch that carry the same
\* program and timeout get the same passed value and the same outcome (jobs
\* whose scratch directory the system could not create, and jobs with a
\* deadline the harness's own steps can outlast, are left out).
C23_VerdictDependsOnOwnProgramOnly ==
    \A i, j \in Jobs :
        (/\ Prog(i) = Prog(j)
         /\ TimeOut(i) = "ample" /\ TimeOut(j) = "ample"
         /\ CallReturned(i) /\ CallReturned(j)
         /\ tdir[i] # NoDir /\ tdir[j] # NoDir) =>
            /\ ret[i].v.passed = ret[j].v.passed
            /\ Outcome(ret[i].v.result) = Outcome(ret[j].v.result)

\* C24: after all jobs of a batch have returned, the working directory of
\* the process is the directory it was before the batch started, for every
\* interleaving of the save-cwd / chdir / restore-cwd steps of the
\* executions the pool ran concurrently.
C24_CwdRestoredAfterBatch ==
    mpc = "returned" => cwd = Home

\* C25: after all jobs of a batch have returned, stdout, stderr and stdin
\* of the process are the original streams installed before the batch, for
\* every interleaving of the enter / exit steps of redirect_io; harness
\* output is never left redirected into a discarded buffer.
C25_StreamsRestoredAfterBatch ==
    mpc = "returned" => stdio = OwnStreams

\* the task ids of a verdict list, and every order they can be first seen in
TaskIds(vs) == {vs[i].task_id : i \in 1 .. Len(vs)}
Orders(S) ==
    {s \in [1 .. Cardinality(S) -> S] :
        \A i, j \in 1 .. Cardinality(S) : i # j => s[i] # s[j]}

\* the verdicts of vs collected in another order: task by task in the order
\* ord, the verdicts of one task in the order they have in vs
RECURSIVE Regroup(_, _, _)
Regroup(vs, ord, i) ==
    IF i > Len(ord) THEN << >>
    ELSE SelectSeq(vs, LAMBDA v : v.task_id = ord[i]) \o Regroup(vs, ord, i + 1)

\* evaluate.main, lines 291-293, applied to a verdict list
Score(vs, n, k) == Mean(estimate_pass_at_k(n, group_and_count(vs), k))

\* the number of entries of a sequence equal to x
Occurrences(s, x) == Cardinality({i \in 1 .. Len(s) : s[i] = x})
SameBag(s, t) ==
    /\ Len(s) = Len(t)
    /\ \A i \in 1 .. Len(s) : Occurrences(s, s[i]) = Occurrences(t, s[i])

\* |x - y| <= 2^-TolBits for two floats in [0, 1]
FClose(x, y) ==
    LET e == Min(Min(x.e, y.e), 0)
        a == BShl(x.m, x.e - e)
        b == BShl(y.m, y.e - e)
        d == IF BCmp(a, b) >= 0 THEN BSub(a, b) ELSE BSub(b, a)
    IN  BCmp(BShl(d, TolBits), BShl(<<1>>, 0 - e)) <= 0

ScoredFromVerdicts == calc.st = "scored" /\ calc.verdicts # << >>

\* C26 (as stated): the benchmark score evaluate.main computes from the
\* stored verdicts (mean of estimate_pass_at_k over group_and_count, scalar
\* num_samples) is the same for every order in which the verdicts were
\* collected and appended.
C26_ScoreSameForEveryOrder ==
    ScoredFromVerdicts =>
        \A ord \in Orders(TaskIds(calc.verdicts)) :
            Score(Regroup(calc.verdicts, ord, 1), calc.num_samples, calc.k)
                = calc.score

\* C26 (amended): for every order of collection the per-task pass counts
\* are the same up to their order, and the score differs by no more than
\* binary64 rounding (2^-TolBits); it is the same float when the tasks are
\* first seen in the same order and when there are at most two tasks.
C26_ScoreSameUpToRounding ==
    ScoredFromVerdicts =>
        \A ord \in Orders(TaskIds(calc.verdicts)) :
            LET vs == Regroup(calc.verdicts, ord, 1)
                sc == Score(vs, calc.num_samples, calc.k)
            IN  /\ SameBag(group_and_count(vs), calc.num_correct)
                /\ FClose(sc, calc.score)
                /\ (\/ group_and_count(vs) = calc.num_correct
                    \/ Len(calc.num_correct) <= 2) => sc = calc.score

\* a scored run of three tasks whose score changes with the order
C26_Witness ==
    /\ ScoredFromVerdicts
    /\ Cardinality(TaskIds(calc.verdicts)) = 3
    /\ \E ord \in Orders(TaskIds(calc.verdicts)) :
          Score(Regroup(calc.verdicts, ord, 1), calc.num_samples, calc.k)
              # calc.score

\* C27: a task none of whose samples passed (c = 0) contributes 0 to the
\* benchmark score, for every pass_at_k and num_samples that check_config
\* accepts, pass_at_k larger than num_samples included.
C27_NoPassContributesZero ==
    Estimated =>
        \A t \in 1 .. Len(calc.num_correct) :
            calc.num_correct[t] = 0 => calc.est[t] = FZero

\* C28: for every benchmark class (HumanEval, HumanEvalPlus, LeetCode,
\* MBPPPlus, BigCodeBench), process_results called with a solution whose
\* task_id is not among the loaded tasks returns a verdict with the
\* solution's task_id and completion_id and passed = False; it does not
\* raise into the worker pool.
C28_UnknownTaskYieldsFailedVerdict ==
    (bench.pc = "done" /\ bench.solution.task_id \notin bench.tasks) =>
        /\ bench.out.t = "val"
        /\ bench.out.v.task_id = bench.solution.task_id
        /\ bench.out.v.completion_id = bench.solution.completion_id
        /\ bench.out.v.passed = FALSE

\* the responses received so far for the prompt
Responses == {i \in 1 .. Len(gen.log) : gen.log[i] # "raise"}

RequestsBounded ==
    /\ gen.requests <= gen.max_rounds
    /\ \A i \in 1 .. Len(gen.log) : i < gen.requests => gen.log[i] = "length"
    /\ gen.pc = "done" => gen.result.v.num_response = Cardinality(Responses)

\* C29: the continuation loops of OpenaiGenerator (generate_with_normal_mode
\* and generate_with_stream_auto_continue) always terminate, after at most
\* max_rounds requests for one prompt; a further request is issued only if
\* every earlier response of the prompt had finish_reason "length" and no
\* earlier request raised; the reported num_response is the number of
\* responses received.
C29_ContinuationLoopTerminates ==
    []RequestsBounded /\ <>(gen.pc = "done")

\* every allowed round was used: each response was cut off
C29_Witness ==
    /\ gen.pc = "done"
    /\ gen.max_rounds = MaxRounds
    /\ gen.requests = MaxRounds
    /\ gen.result.v.num_response = MaxRounds
    /\ gen.result.v.finish_reason = "length"

\* the class the registrations made so far leave under name: that of the
\* first registration of the name, or of the latest forced one after it
RECURSIVE Holder(_, _, _, _)
Holder(log, name, i, cur) ==
    IF i > Len(log) THEN cur
    ELSE LET e    == log[i]
             next == IF e.name = name /\ (cur = None \/ e.force)
                     THEN Val(e.cls) ELSE cur
         IN  IF next = None THEN Holder(log, name, i + 1, None)
             ELSE Holder(log, name, i + 1, next)

\* C30: Registry.register_module never silently replaces an entry:
\* registering a name that is already registered with force = False raises
\* KeyError and leaves the registry's contents unchanged, and after any
\* sequence of registrations get(name) returns the class of the first
\* registration of that name or of the latest forced one.
C30_NoSilentReplacement ==
    /\ \A n \in ModuleNames :
          LET h == Holder(reg.log, n, 1, None)
          IN  IF n \in DOMAIN reg.dict THEN h = Val(reg.dict[n]) ELSE h = None
    /\ reg.last.op = "register" =>
          IF reg.last.name \in DOMAIN reg.prev /\ ~reg.last.force
          THEN /\ reg.last.out =
                      Raised(AlreadyRegistered(reg.name, reg.last.name))
               /\ reg.dict = reg.prev
          ELSE reg.last.out.t = "val"
    /\ reg.last.op = "get" /\ reg.last.name \in DOMAIN reg.prev =>
          /\ reg.last.out = Holder(reg.log, reg.last.name, 1, None)
          /\ reg.dict = reg.prev

\* a name was registered, registered again without force (refused) and
\* replaced with force; get returns the forced class
C30_Witness ==
    /\ reg.last.op = "get"
    /\ Len(reg.log) = 3
    /\ \A i \in 1 .. 3 : reg.log[i].name = reg.last.name
    /\ ~reg.log[2].force /\ reg.log[3].force
    /\ reg.log[1].cls # reg.log[3].cls /\ reg.log[2].cls # reg.log[1].cls
    /\ reg.last.out = Val(reg.log[3].cls)

====
